---- MODULE Spec2Model ----
(***************************************************************************)
(* Model of gromacs/fileformats/xpm.py: the XPM container, its read/parse  *)
(* life cycle and the line-by-line decoder.                                *)
(*                                                                         *)
(* A text line is a sequence of one-character strings (the trailing "\n"   *)
(* included, as readline() returns it); a file is a sequence of lines.     *)
(* A palette value is a record [t, i, s]: t is the Python type ("int",     *)
(* "str" or "float"), i the number (0 for a string), s the text (<<>> for  *)
(* a number).                                                              *)
(***************************************************************************)
EXTENDS Integers, Sequences, FiniteSets, TLC

(* ------------------------------------------------------------------ *)
(* Bounds of the model.                                               *)
(* ------------------------------------------------------------------ *)

\* number of read() calls made on one container
MaxCalls == 2

\* number of lines that follow the palette block in a generated file
MaxBody == 3

\* len(meta) is tracked modulo MetaWrap (the list itself grows without bound)
MetaWrap == 2

(* ------------------------------------------------------------------ *)
(* Python string primitives, on sequences of characters.              *)
(* ------------------------------------------------------------------ *)

Q == "\""

NL == "\n"

None == [t |-> "None"]

Min(a, b) == IF a < b THEN a ELSE b

Max(a, b) == IF a > b THEN a ELSE b

\* s.startswith(p)
startswith(s, p) == Len(s) >= Len(p) /\ SubSeq(s, 1, Len(p)) = p

\* the 1-based positions of character c in s
indices(s, c) == {i \in 1..Len(s) : s[i] = c}

\* s.find(c): 0-based index of the first c, -1 when there is none
find(s, c) ==
    IF indices(s, c) = {} THEN -1
    ELSE (CHOOSE i \in indices(s, c) : indices(SubSeq(s, 1, i - 1), c) = {}) - 1

\* s.rfind(c): 0-based index of the last c, -1 when there is none
rfind(s, c) ==
    IF indices(s, c) = {} THEN -1
    ELSE (CHOOSE i \in indices(s, c) : indices(SubSeq(s, i + 1, Len(s)), c) = {}) - 1

\* a slice bound as Python normalises it: negative counts from the end,
\* then clipped to 0..len
clip(n, b) == IF b < 0 THEN Max(n + b, 0) ELSE Min(b, n)

\* s[a:b]
slice(s, a, b) == SubSeq(s, clip(Len(s), a) + 1, clip(Len(s), b))

WS == {" ", "\t", NL}

Digits == <<"0", "1", "2", "3", "4", "5", "6", "7", "8", "9">>

DigitSet == {Digits[i] : i \in 1..10}

DigitVal(c) == (CHOOSE i \in 1..10 : Digits[i] = c) - 1

\* s.split(): the maximal runs of non-whitespace characters, in order
split(s) ==
    LET starts == {i \in 1..Len(s) : s[i] \notin WS /\ (i = 1 \/ s[i - 1] \in WS)}
        ends == {i \in 1..Len(s) : s[i] \notin WS /\ (i = Len(s) \/ s[i + 1] \in WS)}
        nth(S, j) == CHOOSE x \in S : Cardinality({y \in S : y <= x}) = j
    IN  [j \in 1..Cardinality(starts) |-> SubSeq(s, nth(starts, j), nth(ends, j))]

\* int(tok) succeeds on a non-empty run of decimal digits (the generated
\* files hold no sign characters)
isInt(tok) == tok # <<>> /\ \A i \in 1..Len(tok) : tok[i] \in DigitSet

RECURSIVE intOf(_)
intOf(tok) ==
    IF tok = <<>> THEN 0
    ELSE 10 * intOf(SubSeq(tok, 1, Len(tok) - 1)) + DigitVal(tok[Len(tok)])

\* str(n) for n >= 0
RECURSIVE strOf(_)
strOf(n) ==
    IF n < 10 THEN <<Digits[n + 1]>>
    ELSE Append(strOf(n \div 10), Digits[(n % 10) + 1])

(* ------------------------------------------------------------------ *)
(* XPM.unquote and the COLOUR pattern.                                *)
(* ------------------------------------------------------------------ *)

\* s[1+s.find('"'):s.rfind('"')]
unquote(s) == slice(s, 1 + find(s, Q), rfind(s, Q))

Letters ==
    {"a","b","c","d","e","f","g","h","i","j","k","l","m",
     "n","o","p","q","r","s","t","u","v","w","x","y","z",
     "A","B","C","D","E","F","G","H","I","J","K","L","M",
     "N","O","P","Q","R","S","T","U","V","W","X","Y","Z"}

\* [ a-zA-Z]
SymbolClass == Letters \cup {" "}

\* [0-9A-F]
HexClass == DigitSet \cup {"A", "B", "C", "D", "E", "F"}

\* the character of c at 1-based position p, "" past the end
at(c, p) == IF p \in 1..Len(c) THEN c[p] ELSE ""

\* first position >= p whose character is not in class (a greedy run of
\* a character class: the classes that follow each run are disjoint from it)
RECURSIVE skip(_, _, _)
skip(c, p, class) == IF at(c, p) \in class THEN skip(c, p + 1, class) ELSE p

\* The COLOUR pattern tried with its opening quotation mark at position q:
\*   " symbol \s+ c \s+ #[0-9A-F]+ \s* " \s* /* \s* " value "
\* yields <<symbol, value>>, or <<>> when the pattern does not match there.
matchAt(c, q) ==
    LET p1 == skip(c, q + 2, WS)
        p2 == skip(c, p1 + 1, WS)
        p3 == skip(c, p2 + 1, HexClass)
        p4 == skip(c, p3, WS)
        p5 == skip(c, p4 + 1, WS)
        p6 == skip(c, p5 + 2, WS)
        \* (?P<value>.*)" : greedy, up to the last quotation mark that no
        \* newline separates from the value's start ('.' matches no newline)
        ends == {e \in (p6 + 1)..Len(c) :
                    c[e] = Q /\ \A j \in (p6 + 1)..(e - 1) : c[j] # NL}
        last == IF ends = {} THEN 0 ELSE CHOOSE e \in ends : \A f \in ends : f <= e
    IN  IF /\ at(c, q) = Q
           /\ at(c, q + 1) \in SymbolClass
           /\ p1 > q + 2 /\ at(c, p1) = "c"
           /\ p2 > p1 + 1 /\ at(c, p2) = "#"
           /\ p3 > p2 + 1
           /\ at(c, p4) = Q
           /\ at(c, p5) = "/" /\ at(c, p5 + 1) = "*"
           /\ at(c, p6) = Q
           /\ last > p6
           \* "^.*" : no newline before the opening quotation mark
           /\ \A j \in 1..(q - 1) : c[j] # NL
        THEN <<c[q + 1], SubSeq(c, p6 + 1, last - 1)>>
        ELSE <<>>

\* COLOUR.search(c): "^.*" is greedy, so the match opens at the last
\* quotation mark from which the rest of the pattern matches
COLOUR(c) ==
    LET ok == {q \in 1..Len(c) : matchAt(c, q) # <<>>}
    IN  IF ok = {} THEN <<>>
        ELSE matchAt(c, CHOOSE q \in ok : \A r \in ok : r <= q)

(* ------------------------------------------------------------------ *)
(* Palette values, autoconversion, dtype.                             *)
(* ------------------------------------------------------------------ *)

IntVal(n) == [t |-> "int", i |-> n, s |-> <<>>]

StrVal(x) == [t |-> "str", i |-> 0, s |-> x]

\* Autoconverter(mode="singlet").convert: the best-fit scalar of a legend
\* string; the model distinguishes integers from other text
convert(v) == IF isInt(v) THEN IntVal(intOf(v)) ELSE StrVal(v)

\* numpy.array(colors.values()).dtype: float64 for no values, an integer
\* type for integers only, a string type as soon as one value is a string
dtypeOf(colors) ==
    LET vals == {colors[k] : k \in DOMAIN colors}
    IN  IF vals = {} THEN "float"
        ELSE IF \A v \in vals : v.t = "int" THEN "int" ELSE "str"

\* the element numpy.zeros fills an array of that dtype with
zero(dtype) == [t |-> dtype, i |-> 0, s |-> <<>>]

\* the element an array of that dtype stores when v is assigned to it
cast(v, dtype) ==
    IF v.t = dtype THEN v
    ELSE IF dtype = "str" THEN StrVal(strOf(v.i))
    ELSE [t |-> dtype, i |-> v.i, s |-> <<>>]

\* the array numpy.zeros(shape, dtype) allocates during the id-th call of
\* read() (parse allocates at most one array per call, so id tells the
\* objects apart); cells are indexed from 0, cells[<<c, r>>] is array[c][r]
zeros(id, shape, dtype) ==
    [id |-> id,
     dtype |-> dtype,
     shape |-> shape,
     cells |-> [p \in (0..(shape[1] - 1)) \X (0..(shape[2] - 1)) |-> zero(dtype)]]

(* ------------------------------------------------------------------ *)
(* The files read() is called on.                                     *)
(* ------------------------------------------------------------------ *)

\* "static char *gromacs_xpm[]"
Marker ==
    <<"s","t","a","t","i","c"," ","c","h","a","r"," ","*",
      "g","r","o","m","a","c","s","_","x","p","m","[","]">>

MarkerLine == Marker \o <<" ", "=", " ", "{", NL>>

\* "/*"
CommentOpen == <<"/", "*">>

\* /* XPM */
XpmLine == <<"/", "*", " ", "X", "P", "M", " ", "*", "/", NL>>

\* /* y */
AxisLine == <<"/", "*", " ", "y", " ", "*", "/", NL>>

\* };
CloseLine == <<"}", ";", NL>>

\* "text",
quoted(text) == <<Q>> \o text \o <<Q, ",", NL>>

\* "sym  c #F " /* "value" */,
PaletteLine(sym, value) ==
    <<Q, sym, " ", " ", "c", " ", "#", "F", " ", Q, " ", "/", "*", " ", Q>>
        \o value \o <<Q, " ", "*", "/", ",", NL>>

\* a legend line whose colour lacks the '#'
BadPaletteLine ==
    <<Q, "o", " ", " ", "c", " ", "F", " ", Q, " ", "/", "*", " ", Q, "1", Q,
      " ", "*", "/", ",", NL>>

\* the dimension line of the four (or another number of) tokens
DimLine(a) ==
    quoted([i \in 1..(2 * Len(a) - 1) |-> IF i % 2 = 1 THEN a[(i + 1) \div 2] ELSE " "])

RowSO == quoted(<<" ", "o">>)

RowOS == quoted(<<"o", " ">>)

RowOX == quoted(<<"o", "x">>)

RowO == quoted(<<"o">>)

RowOSO == quoted(<<"o", " ", "o">>)

BodyPool == {RowSO, RowOX, AxisLine}

RECURSIVE SeqsUpTo(_, _)
SeqsUpTo(S, n) ==
    IF n = 0 THEN {<<>>}
    ELSE LET T == SeqsUpTo(S, n - 1)
         IN  T \cup {Append(t, x) : t \in {u \in T : Len(u) = n - 1}, x \in S}

Bodies == SeqsUpTo(BodyPool, MaxBody)

Palette01 == <<PaletteLine(" ", <<"0">>), PaletteLine("o", <<"1">>)>>

\* the well-formed header "2 2 2 1" and palette, every body
FilesBody ==
    {<<XpmLine, MarkerLine, DimLine(<<"2", "2", "2", "1">>)>> \o Palette01 \o b :
        b \in Bodies}

DimVariants ==
    {<<"4", "2", "2", "1">>, <<"3", "2", "2", "2">>, <<"1", "2", "2", "2">>,
     <<"2", "1", "2", "2">>, <<"2", "2", "2", "0">>, <<"0", "2", "2", "1">>,
     <<"2", "0", "2", "1">>, <<"2", "1", "2", "1">>, <<"2", "2", "1", "1">>,
     <<"2", "2", "0", "1">>, <<"2", "2", "3", "1">>, <<"3", "1", "2", "1">>,
     <<"2", "2", "2">>, <<"2", "2", "2", "1", "1">>, <<"2", "x", "2", "1">>}

PaletteVariants ==
    {Palette01,
     <<PaletteLine(" ", <<"0">>), PaletteLine("o", <<"A">>)>>,
     <<PaletteLine("o", <<"0">>), PaletteLine("o", <<"1">>)>>,
     <<PaletteLine(" ", <<"0">>), BadPaletteLine>>}

SmallBodies ==
    {<<>>, <<RowSO>>, <<RowO>>, <<RowSO, RowOS>>, <<RowOSO, AxisLine, RowOSO>>,
     <<AxisLine, RowOS, AxisLine, RowSO>>, <<RowOS, RowOS, RowOX>>,
     <<RowSO, RowOS, CloseLine>>, <<RowOS, CloseLine>>, <<CloseLine>>, <<<<NL>>>>}

\* every dimension line, and every palette, with a few bodies
FilesHeader ==
    {<<MarkerLine, DimLine(d)>> \o Palette01 \o b : d \in DimVariants, b \in SmallBodies}
        \cup {<<MarkerLine, DimLine(<<"2", "2", "2", "1">>)>> \o p \o b :
                p \in PaletteVariants, b \in SmallBodies}

\* files that lack the marker line, or end right after it
FilesShort ==
    {<<>>, <<XpmLine>>, <<XpmLine, AxisLine>>, <<MarkerLine>>, <<XpmLine, MarkerLine>>,
     <<XpmLine, DimLine(<<"2", "2", "2", "1">>)>> \o Palette01 \o <<RowSO, RowOS>>}

Files == FilesBody \cup FilesHeader \cup FilesShort

(* ------------------------------------------------------------------ *)
(* State.                                                             *)
(* ------------------------------------------------------------------ *)

VARIABLES
    autoconvert,  \* self.autoconvert
    array,        \* self.__array: None or a matrix
    calls,        \* read() calls made so far
    pc,           \* position of the running call: "idle" when none runs,
                  \* "return" after line 170, "raise" while an exception leaves parse
    file,         \* content of the file at self.real_filename
    pos,          \* 1-based index of the next line the open file yields
                  \* (the line read last is file[pos - 1])
    meta,         \* meta[-1]
    nmeta,        \* len(meta) modulo MetaWrap
    dims,         \* <<nx, ny, nc, nb>>, <<>> before line 135
    colors,       \* the palette dict
    data,         \* the local array of parse
    iy,           \* the row counter
    raised,       \* how the last call ended: "none" (it runs, or there was none),
                  \* "ok" or the exception class
    fatal         \* logger.fatal was called during the last call

vars ==
    <<autoconvert, array, calls, pc, file, pos, meta, nmeta, dims, colors,
      data, iy, raised, fatal>>

\* xpm.readline() at position p: the line, '' at the end of the file
readline(f, p) == IF p <= Len(f) THEN f[p] ELSE <<>>

advance(f, p) == IF p <= Len(f) THEN p + 1 ELSE p

\* XPM(): __init__ without a filename (XPM(filename) is the same followed
\* by read(filename))
Init ==
    /\ autoconvert \in BOOLEAN
    /\ array = None
    /\ calls = 0
    /\ pc = "idle"
    /\ file = <<>>
    /\ pos = 1
    /\ meta = <<>>
    /\ nmeta = 0
    /\ dims = <<>>
    /\ colors = <<>>
    /\ data = None
    /\ iy = 0
    /\ raised = "none"
    /\ fatal = FALSE

\* an exception of class e is raised in parse(): self.__array is not
\* assigned. logged: logger.fatal was called before the raise
Raise(e, logged) ==
    /\ pc' = "raise"
    /\ raised' = e
    /\ fatal' = logged
    /\ UNCHANGED <<autoconvert, array, calls, file, meta, nmeta, dims, colors, data, iy>>

(* ------------------------------------------------------------------ *)
(* read() and the steps of parse().                                   *)
(* ------------------------------------------------------------------ *)

\* read(filename): _init_filename, then parse() opens the file and reads
\* its first line into meta
read(f) ==
    /\ pc = "idle"
    /\ calls < MaxCalls
    /\ calls' = calls + 1
    /\ file' = f
    /\ meta' = readline(f, 1)
    /\ pos' = advance(f, 1)
    /\ nmeta' = 1 % MetaWrap
    /\ pc' = "scan"
    /\ raised' = "none"
    /\ fatal' = FALSE
    /\ UNCHANGED <<autoconvert, array, dims, colors, data, iy>>

\* one turn of "while not meta[-1].startswith(...)": meta.append(xpm.readline())
ScanHeader ==
    /\ pc = "scan"
    /\ ~startswith(meta, Marker)
    /\ meta' = readline(file, pos)
    /\ pos' = advance(file, pos)
    /\ nmeta' = (nmeta + 1) % MetaWrap
    /\ UNCHANGED <<autoconvert, array, calls, pc, file, dims, colors, data, iy,
                   raised, fatal>>

\* mutant of parseDim: the first four tokens are taken, a missing or
\* non-integer one counts as 0
parseDimLenient(dim) ==
    LET toks == split(unquote(dim))
    IN  [err |-> "none", fatal |-> FALSE,
         val |-> [i \in 1..4 |-> IF i <= Len(toks) /\ isInt(toks[i])
                                 THEN intOf(toks[i]) ELSE 0]]

\* nx, ny, nc, nb = [int(i) for i in self.unquote(dim).split()]
\* int() of a non-integer token and unpacking other than four values both
\* raise ValueError; nothing is logged
parseDim(dim) ==
    LET toks == split(unquote(dim))
    IN  IF (\A i \in 1..Len(toks) : isInt(toks[i])) /\ Len(toks) = 4
        THEN [err |-> "none", fatal |-> FALSE, val |-> [i \in 1..4 |-> intOf(toks[i])]]
        ELSE [err |-> "ValueError", fatal |-> FALSE, val |-> <<>>]

\* the loop ends on the marker line; the next line holds the dimensions
ReadDim ==
    /\ pc = "scan"
    /\ startswith(meta, Marker)
    /\ pos' = advance(file, pos)
    /\ LET r == parseDim(readline(file, pos))
       IN  IF r.err = "none"
           THEN /\ dims' = r.val
                /\ pc' = "colours"
                /\ UNCHANGED <<autoconvert, array, calls, file, meta, nmeta,
                               colors, data, iy, raised, fatal>>
           ELSE Raise(r.err, r.fatal)

\* col(c): the (symbol, value) pair of a legend line; without a match,
\* logger.fatal and ParseError
col(c) ==
    LET m == COLOUR(c)
    IN  IF m = <<>>
        THEN [err |-> "ParseError", fatal |-> TRUE, key |-> <<>>, value |-> <<>>]
        ELSE [err |-> "none", fatal |-> FALSE, key |-> <<m[1]>>, value |-> StrVal(m[2])]

\* dict(pairs): a later pair replaces an earlier one with the same key
dict(pairs) ==
    [k \in {pairs[i].key : i \in 1..Len(pairs)} |->
        LET j == CHOOSE j \in 1..Len(pairs) :
                    /\ pairs[j].key = k
                    /\ \A l \in (j + 1)..Len(pairs) : pairs[l].key # k
        IN  pairs[j].value]

\* colors = dict([self.col(xpm.readline()) for i in xrange(nc)])
ReadColours ==
    /\ pc = "colours"
    /\ LET nc == dims[3]
           cols == [i \in 1..nc |-> col(readline(file, pos + i - 1))]
           bad == {i \in 1..nc : cols[i].err # "none"}
       IN  IF bad = {}
           THEN /\ colors' = dict(cols)
                /\ pos' = Min(pos + nc, Len(file) + 1)
                /\ pc' = "allocate"
                /\ UNCHANGED <<autoconvert, array, calls, file, meta, nmeta,
                               dims, data, iy, raised, fatal>>
           ELSE LET j == CHOOSE j \in bad : \A l \in bad : j <= l
                IN  /\ pos' = Min(pos + j, Len(file) + 1)
                    /\ Raise(cols[j].err, cols[j].fatal)

\* mutant of shapeOf: the column count rounded up
shapeCeil(nx, ny, nb) == <<(nx + nb - 1) \div nb, ny>>

\* (nx/nb, ny): Python 2 integer division
shapeOf(nx, ny, nb) == <<nx \div nb, ny>>

\* lines 142-145
autoconverted(cs) == [k \in DOMAIN cs |-> convert(cs[k].s)]

\* lines 142-158: autoconversion of the palette, dtype, numpy.zeros, iy = 0
Allocate ==
    /\ pc = "allocate"
    /\ LET cs == IF autoconvert THEN autoconverted(colors) ELSE colors
       IN  /\ colors' = cs
           /\ IF dims[4] = 0
              THEN /\ pc' = "raise"
                   /\ raised' = "ZeroDivisionError"
                   /\ UNCHANGED <<data, iy>>
              ELSE /\ data' = zeros(calls, shapeOf(dims[1], dims[2], dims[4]),
                                    dtypeOf(cs))
                   /\ iy' = 0
                   /\ pc' = "rows"
                   /\ UNCHANGED raised
    /\ UNCHANGED <<autoconvert, array, calls, file, pos, meta, nmeta, dims, fatal>>

\* "for line in xpm" has a line left
HasLine == pos <= Len(file)

\* mutant of isComment: the closing "};" is skipped as well
isCommentOrClose(line) == startswith(line, <<"/", "*">>) \/ startswith(line, <<"}">>)

\* line.startswith("/*")
isComment(line) == startswith(line, CommentOpen)

\* mutant of SkipComment: a comment line advances the row counter
SkipCommentCounted ==
    /\ pc = "rows"
    /\ pos <= Len(file)
    /\ startswith(file[pos], <<"/", "*">>)
    /\ pos' = pos + 1
    /\ iy' = iy + 1
    /\ UNCHANGED <<autoconvert, array, calls, pc, file, meta, nmeta, dims,
                   colors, data, raised, fatal>>

\* if line.startswith("/*"): continue
SkipComment ==
    /\ pc = "rows"
    /\ HasLine
    /\ isComment(file[pos])
    /\ pos' = pos + 1
    /\ UNCHANGED <<autoconvert, array, calls, pc, file, meta, nmeta, dims,
                   colors, data, iy, raised, fatal>>

\* xrange(start, stop, step) for step > 0
xrange(start, stop, step) ==
    [j \in 1..Max(0, (stop - start + step - 1) \div step) |-> start + (j - 1) * step]

\* mutant of rowKeys: one character per symbol whatever the stride
rowKeysUnit(s, nx, nb) ==
    LET ks == xrange(0, nx, nb)
    IN  [j \in 1..Len(ks) |-> slice(s, ks[j], ks[j] + 1)]

\* [s[k:k+nb] for k in xrange(0,nx,nb)]
rowKeys(s, nx, nb) ==
    LET ks == xrange(0, nx, nb)
    IN  [j \in 1..Len(ks) |-> slice(s, ks[j], ks[j] + nb)]

\* mutant of getitem: a key the dict lacks yields 0
getitemDefault(d, key) ==
    IF key \in DOMAIN d
    THEN [err |-> "none", val |-> d[key]]
    ELSE [err |-> "none", val |-> IntVal(0)]

\* colors[key]: KeyError for a key the dict lacks
getitem(d, key) ==
    IF key \in DOMAIN d
    THEN [err |-> "none", val |-> d[key]]
    ELSE [err |-> "KeyError", val |-> None]

\* mutant of setColumn: data[:, iy:] = vals, every row from iy on is written
setColumnFrom(a, row, vals) ==
    IF row >= a.shape[2]
    THEN [err |-> "IndexError", val |-> a]
    ELSE IF Len(vals) # a.shape[1] /\ Len(vals) # 1
    THEN [err |-> "ValueError", val |-> a]
    ELSE [err |-> "none",
          val |-> [a EXCEPT !.cells =
                    [p \in DOMAIN a.cells |->
                        IF p[2] >= row
                        THEN cast(vals[IF Len(vals) = 1 THEN 1 ELSE p[1] + 1], a.dtype)
                        ELSE a.cells[p]]]]

\* data[:, iy] = vals: IndexError for a row index outside the array,
\* ValueError for a list that is neither as long as the column count nor of
\* length one (which numpy broadcasts)
setColumn(a, row, vals) ==
    IF row >= a.shape[2]
    THEN [err |-> "IndexError", val |-> a]
    ELSE IF Len(vals) # a.shape[1] /\ Len(vals) # 1
    THEN [err |-> "ValueError", val |-> a]
    ELSE [err |-> "none",
          val |-> [a EXCEPT !.cells =
                    [p \in DOMAIN a.cells |->
                        IF p[2] = row
                        THEN cast(vals[IF Len(vals) = 1 THEN 1 ELSE p[1] + 1], a.dtype)
                        ELSE a.cells[p]]]]

\* lines 165-166 on one line of the file: the right-hand side is
\* evaluated before the assignment
decodeRow(a, row, line, d, cs) ==
    LET keys == rowKeys(unquote(line), d[1], d[4])
        got == [j \in 1..Len(keys) |-> getitem(cs, keys[j])]
    IN  IF \E j \in 1..Len(keys) : got[j].err # "none"
        THEN [err |-> "KeyError", val |-> a]
        ELSE setColumn(a, row, [j \in 1..Len(keys) |-> got[j].val])

\* mutant of nextRow: the row counter is not advanced
nextRowSame(row) == row

\* iy += 1
nextRow(row) == row + 1

\* lines 165-169
DecodeRow ==
    /\ pc = "rows"
    /\ HasLine
    /\ ~isComment(file[pos])
    /\ pos' = pos + 1
    /\ LET r == decodeRow(data, iy, file[pos], dims, colors)
       IN  IF r.err = "none"
           THEN /\ data' = r.val
                /\ iy' = nextRow(iy)
                /\ UNCHANGED <<autoconvert, array, calls, pc, file, meta, nmeta,
                               dims, colors, raised, fatal>>
           ELSE Raise(r.err, FALSE)

\* mutant of Store: an array already held is kept
StoreOnce ==
    /\ pc = "rows"
    /\ pos > Len(file)
    /\ array' = IF array = None THEN data ELSE array
    /\ pc' = "return"
    /\ raised' = "ok"
    /\ UNCHANGED <<autoconvert, calls, file, pos, meta, nmeta, dims, colors,
                   data, iy, fatal>>

\* the file is exhausted: self.__array = data
Store ==
    /\ pc = "rows"
    /\ ~HasLine
    /\ array' = data
    /\ pc' = "return"
    /\ raised' = "ok"
    /\ UNCHANGED <<autoconvert, calls, file, pos, meta, nmeta, dims, colors,
                   data, iy, fatal>>

\* parse() and read() are left, by return or by the exception: the
\* with-block closes the file and the locals are gone
Exit ==
    /\ pc \in {"return", "raise"}
    /\ pc' = "idle"
    /\ file' = <<>>
    /\ pos' = 1
    /\ meta' = <<>>
    /\ nmeta' = 0
    /\ dims' = <<>>
    /\ colors' = <<>>
    /\ data' = None
    /\ iy' = 0
    /\ UNCHANGED <<autoconvert, array, calls, raised, fatal>>

\* a step of the running call
Step ==
    \/ ScanHeader
    \/ ReadDim
    \/ ReadColours
    \/ Allocate
    \/ SkipComment
    \/ DecodeRow
    \/ Store
    \/ Exit

Next ==
    \/ \E f \in Files : read(f)
    \/ Step

Spec == Init /\ [][Next]_vars

\* a call is running
Running == pc # "idle"

\* Weak fairness of Step with its enabling condition written out. Each
\* disjunct of Step changes pc, pos or nmeta, and the guards of the
\* disjuncts cover every value of pc but "idle", so that
\* ENABLED <<Step>>_vars is Running.
Progress == []<>(~Running) \/ []<><<Step>>_vars

\* a call that was started runs on one thread with nothing to wait for:
\* its next step is taken (nothing obliges the caller to call read() again)
FairSpec == Spec /\ WF_vars(ScanHeader) /\ WF_vars(Exit) /\ Progress

(* ------------------------------------------------------------------ *)
(* What the properties read off the file being parsed.                *)
(* ------------------------------------------------------------------ *)

\* index of the first line that begins with the marker, 0 without one
markerIdx(f) ==
    IF \E i \in 1..Len(f) : startswith(f[i], Marker)
    THEN CHOOSE i \in 1..Len(f) :
            startswith(f[i], Marker) /\ \A j \in 1..(i - 1) : ~startswith(f[j], Marker)
    ELSE 0

\* the whitespace-separated tokens between the quotes of the dimension line
dimTokens(f) == split(unquote(readline(f, markerIdx(f) + 1)))

\* the dimension line holds exactly four integer tokens
WellFormedDim(f) ==
    Len(dimTokens(f)) = 4 /\ \A i \in 1..4 : isInt(dimTokens(f)[i])

NX(f) == intOf(dimTokens(f)[1])

NY(f) == intOf(dimTokens(f)[2])

NC(f) == intOf(dimTokens(f)[3])

NB(f) == intOf(dimTokens(f)[4])

NotComment(line) == ~startswith(line, <<"/", "*">>)

\* the lines after the palette block, up to line number last, that do not
\* begin with "/*"
dataRows(f, last) == SelectSeq(SubSeq(f, markerIdx(f) + 2 + NC(f), last), NotComment)

\* the text between the quotes of a line
textOf(line) == slice(line, 1 + find(line, Q), rfind(line, Q))

\* the offsets 0, nb, 2nb, ... < nx
offsets(nx, nb) == {k \in 0..(nx - 1) : k % nb = 0}

\* the length-nb slice of a row's text at offset k
symbolAt(line, k, nb) == slice(textOf(line), k, k + nb)

\* every slice of the row is a key of the palette
KnownRow(line, nx, nb, palette) ==
    \A k \in offsets(nx, nb) : symbolAt(line, k, nb) \in DOMAIN palette

\* a palette value as an array of that dtype holds it: an integer in a
\* string-typed array is its decimal text
held(v, dtype) == IF v.t = dtype THEN v ELSE [t |-> "str", i |-> 0, s |-> strOf(v.i)]

\* the decode has reached the rows: a matrix is allocated
InRows == pc \in {"rows", "return", "raise"} /\ data # None

(* ------------------------------------------------------------------ *)
(* Properties.                                                        *)
(* ------------------------------------------------------------------ *)

\* C1: when parse completes, the stored array has exactly two dimensions,
\* of shape (nx div nb, ny) with nx, ny, nb the first, second and fourth
\* integer of the dimension line, whatever data rows the file holds.
C1_Shape ==
    pc = "return" =>
        /\ Len(array.shape) = 2
        /\ array.shape = <<NX(file) \div NB(file), NY(file)>>
        /\ DOMAIN array.cells =
              (0..((NX(file) \div NB(file)) - 1)) \X (0..(NY(file) - 1))

\* a parse that completed with nx = 1, nb = 2 and one row in a two-row matrix
C1_Witness ==
    /\ pc = "return"
    /\ NX(file) = 1 /\ NB(file) = 2
    /\ array.shape = <<0, 2>>
    /\ Len(dataRows(file, Len(file))) = 1

\* the claim's precondition on the input: nb divides nx and every data row
\* holds at least nx characters between its quotes
C2_Input(f) ==
    /\ NX(f) % NB(f) = 0
    /\ \A r \in 1..Len(dataRows(f, Len(f))) : Len(textOf(dataRows(f, Len(f))[r])) >= NX(f)

\* C2 as stated: after parse, for the r-th line after the palette that is
\* no "/*" line (r from 0) and each offset k, array[k div nb][r] equals the
\* palette value of the row's slice at k.
C2_Original ==
    (pc = "return" /\ C2_Input(file)) =>
        LET rows == dataRows(file, Len(file))
        IN  \A r \in 1..Len(rows) : \A k \in offsets(NX(file), NB(file)) :
                array.cells[<<k \div NB(file), r - 1>>]
                    = colors[symbolAt(rows[r], k, NB(file))]

\* C2, amended: array[k div nb][r] equals that palette value as an element of
\* the array's dtype (an integer value in a string-typed array is stored as
\* its decimal text); "/*" lines advance no row counter and change no cell.
C2_Decoded ==
    (pc = "return" /\ C2_Input(file)) =>
        LET rows == dataRows(file, Len(file))
        IN  /\ iy = Len(rows)
            /\ \A r \in 1..Len(rows) : \A k \in offsets(NX(file), NB(file)) :
                  array.cells[<<k \div NB(file), r - 1>>]
                      = held(colors[symbolAt(rows[r], k, NB(file))], array.dtype)

\* two different rows decoded, "/*" lines before and between them
C2_Witness ==
    /\ pc = "return"
    /\ autoconvert
    /\ C2_Input(file)
    /\ NX(file) = 2
    /\ Len(dataRows(file, Len(file))) = 2
    /\ Len(file) - (markerIdx(file) + 1 + NC(file)) = 4
    /\ array.cells[<<0, 0>>] = IntVal(1)
    /\ array.cells[<<0, 1>>] = IntVal(0)

\* C3: a data row with a slice that is no palette key makes parse raise
\* KeyError; no default is written for it, no later line is decoded, and
\* the matrix of that decode is not the one the accessor holds.
C3_KeyError ==
    /\ (InRows /\ pc = "raise" /\ ~KnownRow(file[pos - 1], NX(file), NB(file), colors))
          => /\ raised = "KeyError"
             /\ array = None \/ array.id # data.id
             /\ \A p \in DOMAIN data.cells : p[2] >= iy => data.cells[p] = zero(data.dtype)
    /\ (InRows /\ pc # "raise")
          => \A r \in 1..Len(dataRows(file, pos - 1)) :
                KnownRow(dataRows(file, pos - 1)[r], NX(file), NB(file), colors)

\* the second row holds an unknown symbol: the first is already in the matrix
C3_Witness ==
    /\ InRows
    /\ pc = "raise"
    /\ raised = "KeyError"
    /\ iy = 1
    /\ textOf(file[pos - 1]) = <<"o", "x">>
    /\ data.cells[<<1, 0>>] # zero(data.dtype)

\* the marker line was found and the line after it is no dimension line
MalformedDim(f) == markerIdx(f) > 0 /\ ~WellFormedDim(f)

\* C4 as stated: a dimension line that is not four integer tokens makes
\* parse fail with the ParseError of an unparseable legend line, logged at
\* fatal severity, before a palette line is read or a matrix allocated.
C4_Original ==
    (MalformedDim(file) /\ pc # "scan") =>
        /\ pc = "raise"
        /\ raised = "ParseError"
        /\ fatal
        /\ colors = <<>>
        /\ data = None
        /\ pos <= markerIdx(file) + 2

\* C4, amended: parse fails with ValueError and logs nothing, before a
\* palette line is read or a matrix allocated.
C4_ValueError ==
    (MalformedDim(file) /\ pc # "scan") =>
        /\ pc = "raise"
        /\ raised = "ValueError"
        /\ ~fatal
        /\ colors = <<>>
        /\ data = None
        /\ pos <= markerIdx(file) + 2

\* a dimension line of three integers
C4_Witness ==
    /\ pc = "raise"
    /\ MalformedDim(file)
    /\ Len(dimTokens(file)) = 3
    /\ \A i \in 1..3 : isInt(dimTokens(file)[i])

C6_ZeroFill ==
    LET rows == dataRows(file, Len(file))
    IN  (/\ InRows
         /\ Len(rows) < NY(file)
         /\ \A r \in 1..Len(rows) : KnownRow(rows[r], NX(file), NB(file), colors))
        => /\ pc # "raise"
           /\ pc = "return" =>
                \A p \in DOMAIN array.cells :
                    array.cells[p] =
                        IF p[2] >= Len(rows)
                        THEN [t |-> array.dtype, i |-> 0, s |-> <<>>]
                        ELSE held(colors[symbolAt(rows[p[2] + 1], p[1] * NB(file),
                                                  NB(file))], array.dtype)

\* one row decoded into a matrix of two
C6_Witness ==
    /\ pc = "return"
    /\ NY(file) = 2
    /\ Len(dataRows(file, Len(file))) = 1
    /\ array.cells[<<1, 0>>] = IntVal(1)
    /\ array.cells[<<1, 1>>] = IntVal(0)

\* C7 as stated, its last clause: once a read() call is over, the accessor
\* never yields a matrix produced by an earlier call.
C7_Original ==
    /\ calls = 0 => array = None
    /\ (pc = "idle" /\ calls >= 1 /\ array # None) => array.id = calls

\* C7, amended: the accessor yields None until a call completes; after a
\* call that completes without raising it yields the matrix that call
\* decoded; a call that raises leaves it the earlier value.
C7_Replace ==
    /\ calls = 0 => array = None
    /\ array # None => array.id \in 1..calls
    /\ pc = "return" => array = data /\ data.id = calls
    /\ raised = "ok" => array # None /\ array.id = calls
    /\ (raised # "ok" /\ array # None) => array.id < calls

\* the second call is over and has replaced the first call's matrix
C7_Witness ==
    /\ pc = "idle"
    /\ calls = 2
    /\ raised = "ok"
    /\ array.id = 2

\* C8: every parse that was started comes to an end.
C8_Terminates == (pc # "idle") ~> (pc = "idle")

\* the fixture of the round-trip test with the given first dimension
Fixture(nx) ==
    <<MarkerLine, DimLine(<<nx, "2", "2", "1">>),
      PaletteLine(" ", <<"0">>), PaletteLine("o", <<"1">>),
      quoted(<<" ", "o">>), quoted(<<"o", " ">>)>>

\* the parse is over and the array is [[0,1],[1,0]] of the integer dtype
Decoded0110 ==
    /\ pc = "return"
    /\ array.dtype = "int"
    /\ array.shape = <<2, 2>>
    /\ array.cells[<<0, 0>>] = IntVal(0)
    /\ array.cells[<<0, 1>>] = IntVal(1)
    /\ array.cells[<<1, 0>>] = IntVal(1)
    /\ array.cells[<<1, 1>>] = IntVal(0)

\* C9 as stated: the fixture with nx = 4 decodes to [[0,1],[1,0]].
C9_Original ==
    (autoconvert /\ file = Fixture("4") /\ pc \in {"return", "raise"}) => Decoded0110

\* C9, amended: the fixture with nx = 2, the width of its rows, decodes to
\* [[0,1],[1,0]] of the integer dtype.
C9_Fixture ==
    (autoconvert /\ file = Fixture("2") /\ pc \in {"return", "raise"}) => Decoded0110

C9_Witness == autoconvert /\ file = Fixture("2") /\ pc = "return"

\* C10: every line after the palette that does not begin with "/*" is
\* decoded as a row and counted; parse completes only if at most ny such
\* lines follow the palette, and raises with the accessor's matrix still
\* an earlier call's when there are more.
C10_RowsBound ==
    /\ (InRows /\ pc # "raise") => iy = Len(dataRows(file, pos - 1))
    /\ pc = "return" => Len(dataRows(file, Len(file))) <= NY(file)
    /\ (InRows /\ pc \in {"return", "raise"} /\ Len(dataRows(file, Len(file))) > NY(file))
          => /\ pc = "raise"
             /\ array = None \/ array.id < calls

\* ny = 2 rows are decoded and the closing line raises
C10_Witness ==
    /\ InRows
    /\ pc = "raise"
    /\ NY(file) = 2
    /\ iy = 2
    /\ file[pos - 1] = <<"}", ";", NL>>
    /\ pos - 1 = Len(file)

====
